---- MODULE Spec2Model ----
(***************************************************************************)
(* A model of flask_github.GithubAuth (src/flask_github.py): one instance  *)
(* of the class, the operations the application calls on it, and the       *)
(* GitHub endpoints it talks to.  Every method is one atomic action (the   *)
(* code is synchronous and blocking); the outbound HTTP requests, the      *)
(* calls of the registered access-token getter and the call of the         *)
(* decorated view function that a method performs are recorded, in order,  *)
(* in last.events.                                                         *)
(***************************************************************************)
EXTENDS Integers, Sequences, FiniteSets, TLC

VARIABLES
    user,              \* self.user: the memoized profile, NoneJson while unset
    get_access_token,  \* self.get_access_token: the registered getter
    session_token,     \* the token stored in the session of the current request
    registered,        \* history: the arguments of the access_token_getter calls, in order
    calls,             \* history: number of method calls made on the instance
    user_fetches,      \* history: number of `GET user` fetches that returned a decoded body
    first_user,        \* history: what the first completed github_user() call returned
    last               \* history: the latest call: its inputs, events, result

vars == <<user, get_access_token, session_token, registered, calls,
          user_fetches, first_user, last>>

(***************************************************************************)
(* Bounds of the model.                                                    *)
(***************************************************************************)
MaxCalls == 3      \* method calls on one instance
MaxPairs == 3      \* key=value pairs in a form-encoded body (SpecDecode)

(***************************************************************************)
(* Values.                                                                 *)
(***************************************************************************)
None == "None"                                  \* Python's None, as a scalar
NoneJson == [kind |-> "None"]                   \* Python's None, as a decoded body
NotJson == [kind |-> "notjson"]                 \* a body response.json() cannot decode
NoResult == [kind |-> "raised"]                 \* the call raised: it returned nothing
Dict(items) == [kind |-> "dict", items |-> items]
EmptyDict == [k \in {} |-> None]
ParamsNone == [None |-> None]                   \* the argument params=None

client_id == "cid"
client_secret == "csecret"
base_url == "https://api.github.com/"
base_auth_url == "https://github.com/login/oauth/"

Tokens == {"tA", "tB"}
Owner(tok) == IF tok = "tA" THEN "alice" ELSE "bob"
Profile(login) == Dict([login |-> login])
ErrorBody == Dict([message |-> "Bad credentials"])

(***************************************************************************)
(* The access-token getters an application registers.  The default one is  *)
(* the constructor's lambda returning None; session_getter returns the     *)
(* token kept in the session of the current request; const_getter returns  *)
(* one fixed token.                                                        *)
(***************************************************************************)
Getters == {"session_getter", "const_getter"}

GetterReturn(getter, session) ==
    CASE getter = "default" -> None
      [] getter = "session_getter" -> session
      [] getter = "const_getter" -> "tB"

\* access_token_getter: self.get_access_token = f
RegisterGetterKeepFirst(current, f) == IF current = "default" THEN f ELSE current

RegisterGetter(current, f) == f

(***************************************************************************)
(* raw_request: the events of one call, up to the HTTP client's answer.    *)
(***************************************************************************)
Update(params, key, value) ==
    [k \in DOMAIN params \cup {key} |-> IF k = key THEN value ELSE params[k]]

RawRequest(getter, session, base, resource, params, method, access_token) ==
    LET consult == access_token = None
        tok == IF consult THEN GetterReturn(getter, session) ELSE access_token
        p0 == IF params = ParamsNone THEN EmptyDict ELSE params
    IN  (IF consult
            THEN <<[type |-> "get_access_token", getter |-> getter, returned |-> tok]>>
            ELSE <<>>)
        \o <<[type |-> "request", method |-> method, url |-> base \o resource,
              params |-> Update(p0, "access_token", tok)]>>

\* session.request(method, url, params): the HTTP client leaves a parameter
\* whose value is None out of the request it sends
SentParams(params) == {k \in DOMAIN params : params[k] # None}

(***************************************************************************)
(* The HTTP client's answers.                                              *)
(***************************************************************************)
NetErr == [kind |-> "neterr"]
Response(status, content) == [kind |-> "ok", status_code |-> status, content |-> content]

Statuses == {200, 204, 302, 404, 500}
Is2xx(status) == status \in 200..299

\* `GET user` with access token tok: GitHub answers 200 with the profile of
\* the token's owner, or anything else
UserResponses(tok) ==
    {NetErr}
    \cup (IF tok \in Tokens THEN {Response(200, Profile(Owner(tok)))} ELSE {})
    \cup {Response(200, NoneJson)}
    \cup {Response(401, ErrorBody), Response(500, NotJson)}

MemberResponses == {NetErr} \cup {Response(s, "") : s \in Statuses}

\* bodies the token endpoint answers with, as the key=value pairs of the
\* form-encoded text (a blank value is "key=")
ExchangeBodies ==
    { << <<"access_token", "tok123">>, <<"token_type", "bearer">> >>,
      << <<"scope", "repo">>, <<"scope", "user">>, <<"state", "">> >>,
      << <<"error", "bad_verification_code">> >> }

TokenResponses ==
    {NetErr} \cup {Response(200, b) : b \in ExchangeBodies} \cup {Response(404, <<>>)}

ResourceResponses ==
    {NetErr, Response(200, Dict([id |-> "1"])), Response(404, ErrorBody),
     Response(500, NotJson)}

(***************************************************************************)
(* handle_response: the decoding of the token endpoint's answer.           *)
(***************************************************************************)
Scalar(v) == [kind |-> "scalar", val |-> v]
List(vs) == [kind |-> "list", val |-> vs]

\* urlparse.parse_qs: the values of each key in order, blank values dropped
RECURSIVE ParseQsFrom(_, _)
ParseQsFrom(pairs, acc) ==
    IF pairs = <<>> THEN acc
    ELSE LET k == Head(pairs)[1]
             v == Head(pairs)[2]
         IN  ParseQsFrom(Tail(pairs),
                 IF v = "" THEN acc
                 ELSE IF k \in DOMAIN acc THEN [acc EXCEPT ![k] = Append(@, v)]
                 ELSE Update(acc, k, <<v>>))

ParseQs(content) == ParseQsFrom(content, EmptyDict)

\* if len(v) == 1: data[k] = v[0]
CollapseAny(v) == IF Len(v) >= 1 THEN Scalar(v[1]) ELSE List(v)

Collapse(v) == IF Len(v) = 1 THEN Scalar(v[1]) ELSE List(v)

DecodeToken(content) ==
    LET data == ParseQs(content)
    IN  Dict([k \in DOMAIN data |-> Collapse(data[k])])

\* the params dictionary handle_response builds; request.args.get('code')
HandleResponseParamsNoSecret(args) ==
    [code |-> IF "code" \in DOMAIN args THEN args["code"] ELSE None,
     client_id |-> client_id]

HandleResponseParams(args) ==
    [code |-> IF "code" \in DOMAIN args THEN args["code"] ELSE None,
     client_id |-> client_id,
     client_secret |-> client_secret]

HandleResponse(getter, session, args, resp) ==
    LET ev == RawRequest(getter, session, base_auth_url, "access_token",
                         HandleResponseParams(args), "POST", None)
    IN  IF resp = NetErr
        THEN [events |-> ev, responses |-> <<resp>>, raised |-> "ConnectionError",
              result |-> NoResult]
        ELSE [events |-> ev, responses |-> <<resp>>, raised |-> "none",
              result |-> DecodeToken(resp.content)]

\* handle_invalid_response: pass
HandleInvalidResponse ==
    [events |-> <<>>, responses |-> <<>>, raised |-> "none", result |-> NoneJson]

\* 'code' in request.args
HasCodeAlways(args) == TRUE

HasCode(args) == "code" \in DOMAIN args

(***************************************************************************)
(* get_resource, get_github_user, github_user, has_org_access.             *)
(***************************************************************************)
GetResourceCall(getter, session, resource, params, access_token, resp) ==
    LET ev == RawRequest(getter, session, base_url, resource, params, "GET", access_token)
    IN  IF resp = NetErr
        THEN [events |-> ev, responses |-> <<resp>>, raised |-> "ConnectionError",
              result |-> NoResult]
        ELSE IF resp.content = NotJson      \* response.json() raises
        THEN [events |-> ev, responses |-> <<resp>>, raised |-> "ValueError",
              result |-> NoResult]
        ELSE [events |-> ev, responses |-> <<resp>>, raised |-> "none",
              result |-> [response |-> resp, json |-> resp.content]]

\* the value github_user() leaves in self.user and returns
GithubUserCall(u, getter, session, resp) ==
    IF u # NoneJson
    THEN [events |-> <<>>, responses |-> <<>>, raised |-> "none", user |-> u,
          result |-> u, fetched |-> 0]
    ELSE LET g == GetResourceCall(getter, session, "user", ParamsNone, None, resp)
         IN  IF g.raised = "none"
             THEN [events |-> g.events, responses |-> g.responses, raised |-> "none",
                   user |-> g.result.json, result |-> g.result.json, fetched |-> 1]
             ELSE [events |-> g.events, responses |-> g.responses, raised |-> g.raised,
                   user |-> u, result |-> NoResult, fetched |-> 0]

\* response.status_code == 204
HasOrgResultAny2xx(status) == Is2xx(status)

HasOrgResult(status) == status = 204

MemberPath(organization, login) == "orgs/" \o organization \o "/members/" \o login

HasOrgAccessCall(u, getter, session, organization, resp1, resp2) ==
    LET g == GithubUserCall(u, getter, session, resp1)
    IN  IF g.raised # "none" THEN g
        ELSE IF g.result = NoneJson      \* None['login']
        THEN [g EXCEPT !.raised = "TypeError", !.result = NoResult]
        ELSE IF "login" \notin DOMAIN g.result.items     \* user['login']
        THEN [g EXCEPT !.raised = "KeyError", !.result = NoResult]
        ELSE LET ev == RawRequest(getter, session, base_url,
                                  MemberPath(organization, g.result.items["login"]),
                                  ParamsNone, "GET", None)
             IN  IF resp2 = NetErr
                 THEN [g EXCEPT !.events = @ \o ev, !.responses = Append(@, resp2),
                                !.raised = "ConnectionError", !.result = NoResult]
                 ELSE [g EXCEPT !.events = @ \o ev, !.responses = Append(@, resp2),
                                !.result = HasOrgResult(resp2.status_code)]

(***************************************************************************)
(* authorize.                                                              *)
(***************************************************************************)
AuthorizeParamsAlwaysRedirect(callback_url, scope) ==
    LET p0 == [client_id |-> client_id]
        p1 == Update(p0, "redirect_uri", callback_url)
    IN  IF scope # None THEN Update(p1, "scope", scope) ELSE p1

AuthorizeParams(callback_url, scope) ==
    LET p0 == [client_id |-> client_id]
        p1 == IF callback_url # None THEN Update(p0, "redirect_uri", callback_url) ELSE p0
    IN  IF scope # None THEN Update(p1, "scope", scope) ELSE p1

\* urllib.quote_plus on the values of the model
QuotePlus(v) ==
    CASE v = "http://x/cb?n=1" -> "http%3A%2F%2Fx%2Fcb%3Fn%3D1"
      [] v = "repo user" -> "repo+user"
      [] OTHER -> v

\* the orders in which a dictionary may yield its keys
KeyOrders(keys) ==
    {o \in [1..Cardinality(keys) -> keys] :
        \A i, j \in 1..Cardinality(keys) : o[i] = o[j] => i = j}

\* urllib.urlencode(params), as the key=value pairs of the query string
Urlencode(params, order) ==
    [i \in 1..Len(order) |-> <<order[i], QuotePlus(params[order[i]])>>]

(***************************************************************************)
(* The inputs of the calls.                                                *)
(***************************************************************************)
RequestArgs == { [error |-> "access_denied"], [code |-> "ABC123"], [code |-> "XYZ789"] }
ViewArgs == { <<>>, <<"a1">> }
CallbackUrls == {None, "http://x/cb?n=1"}
Scopes == {None, "repo user"}
Organizations == {"acme", "other"}
ResourceCalls == { <<"user", ParamsNone>>, <<"user/repos", [page |-> "2"]>> }

(***************************************************************************)
(* The state after GithubAuth(client_id, client_secret, session_key).      *)
(***************************************************************************)
Init ==
    /\ user = NoneJson
    /\ get_access_token = "default"
    /\ session_token = None
    /\ registered = <<>>
    /\ calls = 0
    /\ user_fetches = 0
    /\ first_user = [set |-> FALSE]
    /\ last = [op |-> "init", input |-> <<>>, events |-> <<>>, responses |-> <<>>,
               raised |-> "none", result |-> NoneJson]

\* the application serves a request of another session: what the session
\* getter returns changes
SetSession(tok) ==
    /\ tok # session_token
    /\ session_token' = tok
    /\ last' = [op |-> "session", input |-> tok, events |-> <<>>, responses |-> <<>>,
                raised |-> "none", result |-> NoneJson]
    /\ UNCHANGED <<user, get_access_token, registered, calls, user_fetches,
                   first_user>>

AccessTokenGetter(f) ==
    /\ calls < MaxCalls
    /\ calls' = calls + 1
    /\ get_access_token' = RegisterGetter(get_access_token, f)
    /\ registered' = Append(registered, f)
    /\ last' = [op |-> "access_token_getter", input |-> f, events |-> <<>>,
                responses |-> <<>>, raised |-> "none", result |-> f]
    /\ UNCHANGED <<user, session_token, user_fetches, first_user>>

Authorize(callback_url, scope) ==
    /\ calls < MaxCalls
    /\ calls' = calls + 1
    /\ LET params == AuthorizeParams(callback_url, scope)
       IN  \E order \in KeyOrders(DOMAIN params) :
             last' = [op |-> "authorize",
                      input |-> [callback_url |-> callback_url, scope |-> scope],
                      events |-> <<>>, responses |-> <<>>, raised |-> "none",
                      result |-> [kind |-> "redirect",
                                  base |-> base_auth_url \o "authorize?",
                                  query |-> Urlencode(params, order)]]
    /\ UNCHANGED <<user, get_access_token, session_token, registered,
                   user_fetches, first_user>>

\* the function authorized_handler(f) returns, called with *args while
\* request.args is `args`
Decorated(args, fargs, resp) ==
    /\ calls < MaxCalls
    /\ calls' = calls + 1
    /\ LET h == IF HasCode(args)
                THEN HandleResponse(get_access_token, session_token, args, resp)
                ELSE HandleInvalidResponse
       IN  last' = [op |-> "decorated",
                    input |-> [args |-> args, fargs |-> fargs],
                    events |-> h.events \o
                        (IF h.raised = "none"
                            THEN <<[type |-> "call_f",
                                    positional |-> <<h.result>> \o fargs]>>
                            ELSE <<>>),
                    responses |-> h.responses,
                    raised |-> h.raised,
                    result |-> IF h.raised = "none" THEN [kind |-> "f_return"]
                               ELSE NoResult]
    /\ UNCHANGED <<user, get_access_token, session_token, registered,
                   user_fetches, first_user>>

GetResource(resource, params, access_token, resp) ==
    /\ calls < MaxCalls
    /\ calls' = calls + 1
    /\ LET g == GetResourceCall(get_access_token, session_token, resource, params,
                                access_token, resp)
       IN  last' = [op |-> "get_resource",
                    input |-> [resource |-> resource, params |-> params,
                               access_token |-> access_token],
                    events |-> g.events, responses |-> g.responses,
                    raised |-> g.raised, result |-> g.result]
    /\ UNCHANGED <<user, get_access_token, session_token, registered,
                   user_fetches, first_user>>

GithubUser(resp) ==
    /\ calls < MaxCalls
    /\ calls' = calls + 1
    /\ LET g == GithubUserCall(user, get_access_token, session_token, resp)
       IN  /\ user' = g.user
           /\ user_fetches' = user_fetches + g.fetched
           /\ first_user' = IF g.raised = "none" /\ ~first_user.set
                            THEN [set |-> TRUE, value |-> g.result]
                            ELSE first_user
           /\ last' = [op |-> "github_user", input |-> <<>>,
                       events |-> g.events, responses |-> g.responses,
                       raised |-> g.raised, result |-> g.result]
    /\ UNCHANGED <<get_access_token, session_token, registered>>

HasOrgAccess(organization, resp1, resp2) ==
    /\ calls < MaxCalls
    /\ calls' = calls + 1
    /\ LET g == HasOrgAccessCall(user, get_access_token, session_token, organization,
                                 resp1, resp2)
       IN  /\ user' = g.user
           /\ user_fetches' = user_fetches + g.fetched
           /\ last' = [op |-> "has_org_access", input |-> organization,
                       events |-> g.events, responses |-> g.responses,
                       raised |-> g.raised, result |-> g.result]
    /\ UNCHANGED <<get_access_token, session_token, registered, first_user>>

CurrentToken == GetterReturn(get_access_token, session_token)

Next ==
    \/ \E tok \in Tokens \cup {None} : SetSession(tok)
    \/ \E f \in Getters : AccessTokenGetter(f)
    \/ \E cb \in CallbackUrls, sc \in Scopes : Authorize(cb, sc)
    \/ \E args \in RequestArgs, fargs \in ViewArgs, resp \in TokenResponses :
          Decorated(args, fargs, resp)
    \/ \E rc \in ResourceCalls, t \in Tokens \cup {None}, resp \in ResourceResponses :
          GetResource(rc[1], rc[2], t, resp)
    \/ \E resp \in UserResponses(CurrentToken) : GithubUser(resp)
    \/ \E o \in Organizations, resp1 \in UserResponses(CurrentToken),
          resp2 \in MemberResponses : HasOrgAccess(o, resp1, resp2)

Spec == Init /\ [][Next]_vars

(***************************************************************************)
(* The decoding of handle_response alone, on every body of at most         *)
(* MaxPairs key=value pairs.                                               *)
(***************************************************************************)
BodyKeys == {"access_token", "scope"}
BodyValues == {"", "a", "b"}
Bodies == UNION {[1..n -> BodyKeys \X BodyValues] : n \in 0..MaxPairs}

InitDecode ==
    /\ user = NoneJson
    /\ get_access_token = "default"
    /\ session_token = None
    /\ registered = <<>>
    /\ calls = 0
    /\ user_fetches = 0
    /\ first_user = [set |-> FALSE]
    /\ \E content \in Bodies :
          last = [op |-> "response", input |-> content, events |-> <<>>,
                  responses |-> <<>>, raised |-> "none", result |-> NoneJson]

\* data = parse_qs(response.content) and the loop collapsing it
Decode ==
    /\ last.op = "response"
    /\ last' = [last EXCEPT !.op = "decode", !.result = DecodeToken(last.input)]
    /\ UNCHANGED <<user, get_access_token, session_token, registered, calls,
                   user_fetches, first_user>>

NextDecode == Decode

SpecDecode == InitDecode /\ [][NextDecode]_vars

(***************************************************************************)
(* Properties.                                                             *)
(***************************************************************************)
Requests(ev) == {i \in DOMAIN ev : ev[i].type = "request"}
GetterCalls(ev) == {i \in DOMAIN ev : ev[i].type = "get_access_token"}
ViewCalls(ev) == {i \in DOMAIN ev : ev[i].type = "call_f"}

\* the values a form-encoded body gives key k, in order, blank ones left out
ValuesOf(content, k) ==
    LET Test(p) == p[1] = k /\ p[2] # ""
        sel == SelectSeq(content, Test)
    IN  [i \in 1..Len(sel) |-> sel[i][2]]

\* data is the mapping the body decodes to: one entry per key with a value,
\* a scalar for one value and the sequence of the values for several
IsDecodingOf(data, content) ==
    /\ data.kind = "dict"
    /\ DOMAIN data.items = {content[i][1] : i \in {j \in DOMAIN content : content[j][2] # ""}}
    /\ \A k \in DOMAIN data.items :
          LET vs == ValuesOf(content, k)
          IN  /\ Len(vs) = 1 => data.items[k] = [kind |-> "scalar", val |-> vs[1]]
              /\ Len(vs) >= 2 => data.items[k] = [kind |-> "list", val |-> vs]

\* C1: a callback request with a `code` argument makes exactly one outbound
\* request, a POST to the token endpoint carrying that code, client_id and
\* client_secret; once it is answered the view function is called exactly
\* once, after the request, with the decoded token mapping followed by the
\* original arguments (it is not called when the HTTP client fails).
ExchangeThenDeliver ==
    (last.op = "decorated" /\ "code" \in DOMAIN last.input.args) =>
        LET ev == last.events
        IN  /\ Cardinality(Requests(ev)) = 1
            /\ Len(last.responses) = 1
            /\ \A i \in Requests(ev) :
                  /\ ev[i].method = "POST"
                  /\ ev[i].url = "https://github.com/login/oauth/access_token"
                  /\ {"code", "client_id", "client_secret"} \subseteq SentParams(ev[i].params)
                  /\ ev[i].params["code"] = last.input.args["code"]
                  /\ ev[i].params["client_id"] = client_id
                  /\ ev[i].params["client_secret"] = client_secret
            /\ IF last.responses[1] = NetErr
               THEN ViewCalls(ev) = {} /\ last.raised = "ConnectionError"
               ELSE /\ ViewCalls(ev) = {Len(ev)}
                    /\ \A i \in Requests(ev) : i < Len(ev)
                    /\ IsDecodingOf(ev[Len(ev)].positional[1], last.responses[1].content)
                    /\ Tail(ev[Len(ev)].positional) = last.input.fargs
                    /\ last.raised = "none"

ExchangeThenDeliverWitness ==
    /\ last.op = "decorated"
    /\ "code" \in DOMAIN last.input.args
    /\ last.raised = "none"
    /\ last.input.fargs # <<>>
    /\ last.responses[1].status_code = 200
    /\ "access_token" \in DOMAIN last.events[Len(last.events)].positional[1].items

\* C2: a callback request without a `code` argument makes no outbound request,
\* does not call the registered getter, raises nothing and calls the view
\* function exactly once with None followed by the original arguments.
NoCodeDeliversNone ==
    (last.op = "decorated" /\ "code" \notin DOMAIN last.input.args) =>
        /\ last.events = <<[type |-> "call_f",
                            positional |-> <<NoneJson>> \o last.input.fargs]>>
        /\ last.responses = <<>>
        /\ last.raised = "none"

NoCodeDeliversNoneWitness ==
    /\ last.op = "decorated"
    /\ "code" \notin DOMAIN last.input.args
    /\ get_access_token = "session_getter"
    /\ session_token \in Tokens
    /\ Len(last.events) = 1

\* C3: on one instance at most one `GET user` fetch is ever answered with a
\* decoded body, and every github_user() call after the first returns what
\* the first returned.
AtMostOneUserFetch ==
    /\ user_fetches <= 1
    /\ (last.op = "github_user" /\ last.raised = "none" /\ first_user.set)
          => last.result = first_user.value

\* C4: a has_org_access(organization) that returns has last sent a GET to
\* orgs/{organization}/members/{login}, login being that of the instance's
\* user, with the token its call of the registered getter returned, and
\* returns TRUE exactly if that request's status code is 204.
HasOrgAccessIff204 ==
    (last.op = "has_org_access" /\ last.raised = "none") =>
        LET ev == last.events
            n == Len(ev)
            status == last.responses[Len(last.responses)].status_code
        IN  /\ n >= 2
            /\ ev[n].type = "request"
            /\ ev[n].method = "GET"
            /\ ev[n].url = "https://api.github.com/orgs/" \o last.input
                              \o "/members/" \o user.items["login"]
            /\ ev[n - 1].type = "get_access_token"
            /\ ev[n - 1].getter = get_access_token
            /\ ev[n - 1].returned = CurrentToken
            /\ ev[n].params["access_token"] = CurrentToken
            /\ last.result \in BOOLEAN
            /\ last.result <=> (status = 204)

HasOrgAccessIff204Witness ==
    /\ last.op = "has_org_access"
    /\ last.raised = "none"
    /\ last.result = TRUE
    /\ last.input = "acme"
    /\ CurrentToken \in Tokens

\* C5: when no request of a call fails at the network level and one is
\* answered with a non-2xx status, the call raises nothing of its own (a
\* decoding failure of response.json() is let through as the library's).
NoOwnException ==
    (/\ last.op \in {"decorated", "get_resource", "github_user", "has_org_access"}
     /\ \A i \in DOMAIN last.responses : last.responses[i] # NetErr
     /\ \E i \in DOMAIN last.responses : ~Is2xx(last.responses[i].status_code))
        => last.raised \in {"none", "ValueError"}

\* C6: the token-exchange POST of an answered exchange was sent with exactly
\* the parameters code, client_id and client_secret.
ExchangeSendsOnlyCodeAndCredentials ==
    \A i \in Requests(last.events) :
        (last.events[i].method = "POST" /\ last.raised = "none") =>
            SentParams(last.events[i].params) = {"code", "client_id", "client_secret"}

\* the getter of the latest registration, the constructor's when there is none
LatestRegistered == IF registered = <<>> THEN "default" ELSE registered[Len(registered)]

\* C7: get_resource sends the access_token argument when one is given,
\* without calling the getter; otherwise it calls the most recently
\* registered getter (the default one, returning None, when none was
\* registered) exactly once and sends what it returns.
TokenSentByGetResource ==
    (last.op = "get_resource") =>
        LET ev == last.events
            given == last.input.access_token
        IN  /\ Cardinality(Requests(ev)) = 1
            /\ ev[Len(ev)].type = "request"
            /\ IF given # None
               THEN /\ GetterCalls(ev) = {}
                    /\ ev[Len(ev)].params["access_token"] = given
               ELSE /\ GetterCalls(ev) = {1}
                    /\ Len(ev) = 2
                    /\ ev[1].getter = LatestRegistered
                    /\ ev[2].params["access_token"] =
                          (CASE LatestRegistered = "default" -> None
                             [] LatestRegistered = "session_getter" -> session_token
                             [] LatestRegistered = "const_getter" -> "tB")

TokenSentByGetResourceWitness ==
    /\ last.op = "get_resource"
    /\ last.input.access_token = None
    /\ Len(registered) = 2
    /\ registered[1] # registered[2]
    /\ last.events[2].params["access_token"] \in Tokens

\* C8: the decoded mapping has exactly the keys of the form-decoded body; a
\* key with one value maps to that value as a scalar, a key with two or more
\* values to the sequence of its values in order.
DecodeCollapsesSingletons ==
    (last.op = "decode") => IsDecodingOf(last.result, last.input)

DecodeCollapsesSingletonsWitness ==
    /\ last.op = "decode"
    /\ \E k1, k2 \in DOMAIN last.result.items :
          /\ last.result.items[k1].kind = "scalar"
          /\ last.result.items[k2].kind = "list"
          /\ Len(last.result.items[k2].val) >= 2

\* what a call of authorize() returns and does
AuthorizeQuery ==
    (last.op = "authorize") =>
        LET q == last.result.query
        IN  /\ last.result.kind = "redirect"
            /\ last.result.base = "https://github.com/login/oauth/authorize?"
            /\ {q[i][1] : i \in DOMAIN q} =
                  {"client_id"}
                  \cup (IF last.input.callback_url # None THEN {"redirect_uri"} ELSE {})
                  \cup (IF last.input.scope # None THEN {"scope"} ELSE {})
            /\ \A i, j \in DOMAIN q : q[i][1] = q[j][1] => i = j
            /\ \A i \in DOMAIN q : q[i][1] = "client_id" => q[i][2] = client_id
            /\ last.events = <<>>
            /\ last.raised = "none"

\* C9: authorize() redirects to base_auth_url + 'authorize?' with a query of
\* exactly client_id, redirect_uri iff callback_url was given and scope iff
\* scope was given, each once; it makes no outbound request, does not call
\* the getter, and leaves self.user and the registered getter as they were.
AuthorizeRedirect ==
    /\ []AuthorizeQuery
    /\ [][(last'.op = "authorize" /\ calls' # calls) =>
             (user' = user /\ get_access_token' = get_access_token)]_vars

AuthorizeRedirectWitness ==
    /\ last.op = "authorize"
    /\ last.input.callback_url # None
    /\ last.input.scope = None
    /\ user # NoneJson
    /\ get_access_token # "default"

\* C10: the profile github_user() returns, and the login has_org_access()
\* puts in the membership path, is that of the owner of the token the
\* registered getter returns at the time of the call.
ResultBelongsToCurrentTokenOwner ==
    /\ (/\ last.op = "github_user"
        /\ last.raised = "none"
        /\ CurrentToken \in Tokens
        /\ last.result.kind = "dict"
        /\ "login" \in DOMAIN last.result.items)
          => last.result.items["login"] = Owner(CurrentToken)
    /\ (/\ last.op = "has_org_access"
        /\ last.raised = "none"
        /\ CurrentToken \in Tokens)
          => last.events[Len(last.events)].url =
                base_url \o MemberPath(last.input, Owner(CurrentToken))

====
